---- MODULE Spec2Model ----
(***************************************************************************)
(* ebay-find-api (src/index.js): a search helper for eBay's "finding"      *)
(* service.  The module models                                             *)
(*   - the JavaScript values of a response (undefined, strings, arrays,    *)
(*     objects) and the pure helpers forceArray, flatten, parseInt;        *)
(*   - the life of one search call: the public entry points, the staged    *)
(*     (curried) application of findItemsByProduct, the dispatcher         *)
(*     findCall, the transport's callback and the parser run by .then;     *)
(*   - the process-wide client handle `ebay`, set by init.                 *)
(* The repository's earlier copy of the module, with an uncurried          *)
(* findItemsByProduct that tests the handle before the type, is not        *)
(* modelled.                                                               *)
(***************************************************************************)
EXTENDS Integers, Sequences, FiniteSets, TLC

VARIABLES
    ebay,       \* the module's client handle: Null until init (index.js:5)
    pc,         \* where the call stands: idle, awaitId, awaitOther, pending,
                \*   unwrapped, resolved, rejected, thrown
    fn,         \* the public function the caller entered through
    args,       \* the arguments of that invocation: [type, id, other]
    staged,     \* what the staged application has fixed so far: [type, id]
    ret,        \* what each invocation so far handed back to the caller, in order
    operation,  \* the operation name the dispatcher was bound to
    issued,     \* the remote calls issued so far (their parameter mappings)
    unwrapped,  \* the body findCall resolved its promise with
    settled,    \* how the deferred result settled: [kind, value]
    fin,        \* flatten harness: the structure given to flatten
    fout,       \* flatten harness: the results of flatten, then of flatten on that result
    fpc         \* flatten harness: how many times flatten has been applied

vars == <<ebay, pc, fn, args, staged, ret, operation, issued, unwrapped, settled, fin, fout, fpc>>

callVars == <<pc, fn, args, staged, ret, operation, issued, unwrapped, settled>>
harnessVars == <<fin, fout, fpc>>

(***************************************************************************)
(* JavaScript values.  Every value is a record [t, v]: t is the type tag,  *)
(* v the payload: a tuple of one-character strings for a string, a tuple   *)
(* of values for an array, a function from keys to values for an object.   *)
(***************************************************************************)
undefined == [t |-> "undefined", v |-> <<>>]
Str(chars) == [t |-> "string", v |-> chars]
Arr(elems) == [t |-> "array", v |-> elems]
Obj(fields) == [t |-> "object", v |-> fields]
EmptyObj == Obj([k \in {} |-> undefined])

isArray(x) == x.t = "array"

\* x[k] for a property name k that is not an index: undefined unless x is an
\* object holding k (strings and arrays have no such own property).
Get(x, k) == IF x.t = "object" /\ k \in DOMAIN x.v THEN x.v[k] ELSE undefined

\* JavaScript's ToBoolean on the values modelled.
Truthy(x) == ~(x.t = "undefined" \/ (x.t = "string" /\ x.v = <<>>))

\* obj[k] = val on an object.
Put(x, k, val) == Obj([j \in DOMAIN x.v \cup {k} |-> IF j = k THEN val ELSE x.v[j]])

(***************************************************************************)
(* forceArray (index.js:3): [].concat(arr !== undefined ? arr : []).       *)
(* concat spreads an array argument and appends anything else.             *)
(***************************************************************************)
\* the value handed back as it is: arr !== undefined ? arr : []
forceArrayNoConcat(arr) == IF arr.t = "undefined" THEN Arr(<<>>) ELSE arr

forceArray(arr) ==
    IF arr.t = "undefined" THEN Arr(<<>>)
    ELSE IF isArray(arr) THEN Arr(arr.v)
    ELSE Arr(<<arr>>)

(***************************************************************************)
(* flatten (index.js:50-56).  for (r in arr) visits the keys of an object  *)
(* and the indices of an array (a string's characters are never arrays,    *)
(* undefined has no keys); each visited slot holding an array of length 1  *)
(* is replaced by flatten of that array's element.  The value returned is  *)
(* the argument itself, whatever its type.                                 *)
(***************************************************************************)
RECURSIVE flatten(_)
flattenSlot(x) == IF isArray(x) /\ Len(x.v) = 1 THEN flatten(x.v[1]) ELSE x

flatten(arr) ==
    IF arr.t = "object" THEN Obj([r \in DOMAIN arr.v |-> flattenSlot(arr.v[r])])
    ELSE IF arr.t = "array" THEN Arr([r \in 1..Len(arr.v) |-> flattenSlot(arr.v[r])])
    ELSE arr

(***************************************************************************)
(* parseInt(x, 10): x is converted to a string, leading blanks are skipped,*)
(* an optional sign is read, then the longest run of decimal digits; with  *)
(* no digit the result is NaN.                                             *)
(***************************************************************************)
Num(n) == [t |-> "number", v |-> n]
NaN == [t |-> "NaN", v |-> <<>>]

\* ToBoolean of a number: 0 and NaN are falsy.
TruthyNum(x) == x.t = "number" /\ x.v # 0

RECURSIVE StringOf(_)
RECURSIVE Join(_)
Join(elems) ==
    IF elems = <<>> THEN <<>>
    ELSE LET first == IF Head(elems).t = "undefined" THEN <<>> ELSE StringOf(Head(elems))
         IN IF Len(elems) = 1 THEN first ELSE first \o <<",">> \o Join(Tail(elems))

StringOf(x) ==
    IF x.t = "string" THEN x.v
    ELSE IF x.t = "array" THEN Join(x.v)
    ELSE IF x.t = "object"
        THEN <<"[", "o", "b", "j", "e", "c", "t", " ", "O", "b", "j", "e", "c", "t", "]">>
    ELSE <<"u", "n", "d", "e", "f", "i", "n", "e", "d">>

DigitChars == <<"0", "1", "2", "3", "4", "5", "6", "7", "8", "9">>
isDigit(c) == \E i \in DOMAIN DigitChars : DigitChars[i] = c
digitValue(c) == (CHOOSE i \in DOMAIN DigitChars : DigitChars[i] = c) - 1

RECURSIVE TrimStart(_)
TrimStart(s) == IF s # <<>> /\ Head(s) = " " THEN TrimStart(Tail(s)) ELSE s

RECURSIVE DigitsValue(_, _)
DigitsValue(s, acc) ==
    IF s # <<>> /\ isDigit(Head(s))
    THEN DigitsValue(Tail(s), acc * Len(DigitChars) + digitValue(Head(s)))
    ELSE acc

parseInt(x) ==
    LET s0 == TrimStart(StringOf(x))
        signed == s0 # <<>> /\ Head(s0) \in {"-", "+"}
        s1 == IF signed THEN Tail(s0) ELSE s0
        n == DigitsValue(s1, 0)
    IN IF s1 = <<>> \/ ~isDigit(Head(s1)) THEN NaN
       ELSE IF signed /\ Head(s0) = "-" THEN Num(0 - n) ELSE Num(n)

(***************************************************************************)
(* The errors the code raises, by the statement that raises them.          *)
(***************************************************************************)
Error(message) == [t |-> "error", v |-> message]
ErrInvalidOperation == Error("invalid operation")                    \* index.js:82
ErrUnknownType == Error("unknown type")                              \* index.js:131
ErrResponseEmpty == Error("eBay Response Empty")                     \* index.js:97
ErrNullHandle == Error("TypeError: cannot read property 'get' of null")         \* index.js:90
ErrNoSearchResult == Error("TypeError: cannot read property '@count' of undefined") \* index.js:122
ErrNotAnArray == Error("TypeError: searchResult.item.map is not a function")    \* index.js:123
ErrTransport == Error("transport error")                             \* index.js:92

(***************************************************************************)
(* findByProductParser (index.js:106-127).  The outcome is [threw, value]: *)
(* the value returned, or the value thrown.                                *)
(***************************************************************************)
FailureAck == Str(<<"F", "a", "i", "l", "u", "r", "e">>)
SuccessAck == Str(<<"S", "u", "c", "c", "e", "s", "s">>)

ResultKeys ==
    {"ack", "version", "timestamp", "searchResultCount", "searchResult",
     "paginationOutput", "itemSearchUrl"}

\* the acknowledgement compared with 'failure'
ackFailedLowerCase(response) ==
    Get(response, "ack") = Str(<<"f", "a", "i", "l", "u", "r", "e">>)

\* index.js:115: ack === 'Failure'
ackFailed(response) == Get(response, "ack") = FailureAck

findByProductParser(response) ==
    LET searchResult0 == Get(response, "searchResult")
        \* index.js:111-113: searchResult.item = forceArray(searchResult.item)
        coerce == Truthy(searchResult0) /\ Truthy(Get(searchResult0, "item"))
        searchResult ==
            IF coerce
            THEN Put(searchResult0, "item", forceArray(Get(searchResult0, "item")))
            ELSE searchResult0
        response1 == IF coerce THEN Put(response, "searchResult", searchResult) ELSE response
        count == parseInt(Get(searchResult, "@count"))
        item == Get(searchResult, "item")
        record == [k \in ResultKeys |->
            CASE k = "searchResultCount" -> IF TruthyNum(count) THEN count ELSE Num(0)
              [] k = "searchResult" ->
                    IF coerce THEN Arr([i \in 1..Len(item.v) |-> flatten(item.v[i])])
                    ELSE Arr(<<>>)
              [] k = "itemSearchUrl" -> Get(response1, "itemSearchURL")
              [] OTHER -> Get(response1, k)]
    IN IF ackFailed(response1) THEN [threw |-> TRUE, value |-> response1]
       ELSE IF searchResult.t = "undefined" THEN [threw |-> TRUE, value |-> ErrNoSearchResult]
       ELSE IF coerce /\ ~isArray(item) THEN [threw |-> TRUE, value |-> ErrNotAnArray]
       ELSE [threw |-> FALSE, value |-> Obj(record)]

(***************************************************************************)
(* The request side.  Arguments are plain strings; Missing stands for an   *)
(* argument that was not passed (undefined).                               *)
(***************************************************************************)
Null == "null"
Client == "Ebay client"
Missing == "<undefined>"

\* x === undefined in place of !x
FalsyOnlyUndefined(x) == x = Missing

\* !x on an argument
Falsy(x) == x \in {Missing, ""}

findOperations ==
    {"findCompletedItems", "findItemsAdvanced", "findItemsByCategory",
     "findItemsByKeywords", "findItemsByProduct", "findItemsIneBayStores",
     "getHistograms", "getSearchKeywordsRecommendation", "getVersion"}

validOperation(op) == op \in findOperations

productIdTypes == {"ReferenceID", "ISBN", "UPC", "EAN"}

\* any type that was given passes
validProductIdTypeAnyGiven(type) == ~Falsy(type)

validProductIdType(type) == type \in productIdTypes

\* `${operation}Response`
ResponseKey(op) ==
    CASE op = "findItemsByProduct" -> "findItemsByProductResponse"
      [] op = "findItemsAdvanced" -> "findItemsAdvancedResponse"
      [] OTHER -> "Response"

\* { ...a, ...b }: on a key of both, b's value stands.
Spread(a, b) == [k \in DOMAIN a \cup DOMAIN b |-> IF k \in DOMAIN b THEN b[k] ELSE a[k]]

NoOptions == [k \in {} |-> ""]

\* What the caller may pass: a type, an identifier (or none, or ""), keywords,
\* and the extra options (not passed, {}, or a mapping that also tries to set
\* the operation name).
Types == productIdTypes \cup {"SKU"}
Ids == {Missing, "", "123"}
Keywords == {Missing, "lego"}
Others ==
    {[given |-> FALSE, opts |-> NoOptions],
     [given |-> TRUE, opts |-> NoOptions],
     [given |-> TRUE, opts |-> ("OPERATION-NAME" :> "getVersion" @@ "sortOrder" :> "BestMatch")]}

(***************************************************************************)
(* What the transport may hand to the callback on success: the wire form   *)
(* wraps every field in an array; the attribute @count is a bare string.   *)
(* A body has an ack (or none), a version, and a searchResult (or none)    *)
(* with a count (or none) and no item field, an item array of 0 to         *)
(* MaxItems items, or one item as a bare object.  Besides whole bodies the *)
(* envelope field may be absent, {}, [{}], "", [] or doubly wrapped, or    *)
(* sit under another operation's key.                                      *)
(***************************************************************************)
MaxItems == 2

\* An object of the fields of f that are not undefined.
Mk(f) == Obj([k \in {j \in DOMAIN f : f[j].t # "undefined"} |-> f[k]])

ItemWire(i) == Obj("itemId" :> Arr(<<Str(<<DigitChars[i + 1]>>)>>))

CountAttrs ==
    {undefined, Str(<<"0">>), Str(<<"1">>), Str(<<"1", "2">>), Str(<<"x">>)}

ItemFields ==
    {undefined, flatten(ItemWire(1))}
    \cup {Arr([i \in 1..n |-> ItemWire(i)]) : n \in 0..MaxItems}

SearchResults ==
    {undefined} \cup {Arr(<<Mk("@count" :> c @@ "item" :> it)>>) : c \in CountAttrs, it \in ItemFields}

Acks == {undefined, Arr(<<SuccessAck>>), Arr(<<FailureAck>>)}

Bodies ==
    {Mk("ack" :> a @@ "version" :> Arr(<<Str(<<"1">>)>>) @@ "searchResult" :> sr) :
        a \in Acks, sr \in SearchResults}

Datas(op) ==
    LET key == ResponseKey(op)
    IN {Obj(key :> Arr(<<b>>)) : b \in Bodies}
       \cup {EmptyObj,
             Obj(key :> EmptyObj),
             Obj(key :> Arr(<<EmptyObj>>)),
             Obj(key :> Str(<<>>)),
             Obj(key :> Arr(<<>>)),
             Obj(key :> Arr(<<Arr(<<Mk("ack" :> Arr(<<SuccessAck>>))>>)>>)),
             Obj("getVersionResponse" :> Arr(<<Mk("ack" :> Arr(<<SuccessAck>>))>>))}

(***************************************************************************)
(* init (index.js:12-16): ebay = new Ebay({ app_id: appId }).              *)
(***************************************************************************)
init ==
    /\ ebay' = Client
    /\ UNCHANGED <<callVars, harnessVars>>

(***************************************************************************)
(* An exception leaving a public function before any promise exists.       *)
(***************************************************************************)
Throw(err) ==
    /\ pc' = "thrown"
    /\ ret' = Append(ret, "threw")
    /\ settled' = err
    /\ UNCHANGED <<operation, issued, unwrapped>>

(***************************************************************************)
(* findCall(op)(parser)(baseParams)(other), index.js:80-104, up to the     *)
(* moment it returns.  An invalid operation throws.  Otherwise a promise   *)
(* is created and returned; its executor builds the parameters and calls   *)
(* ebay.get, which throws a TypeError inside the executor, so rejects the  *)
(* promise, when ebay is null.                                             *)
(***************************************************************************)
\* ebay.get on a null handle (index.js:90)
ebayGetThrows == ebay = Null

findCall(op, baseParams, other) ==
    IF ~validOperation(op) THEN Throw(ErrInvalidOperation)
    ELSE
      LET params == Spread(Spread(other, "OPERATION-NAME" :> op), baseParams)
      IN /\ ret' = Append(ret, "promise")
         /\ operation' = op
         /\ unwrapped' = unwrapped
         /\ IF ebayGetThrows
            THEN /\ pc' = "rejected"
                 /\ settled' = ErrNullHandle
                 /\ issued' = issued
            ELSE /\ pc' = "pending"
                 /\ settled' = settled
                 /\ issued' = Append(issued, params)

(***************************************************************************)
(* callFindByProduct({ type, id }), index.js:129-134: throws on a type     *)
(* outside productIdTypes, otherwise returns findCall bound to the         *)
(* operation, the parser and these base parameters.                        *)
(***************************************************************************)
callFindByProduct(type, id) ==
    [threw |-> ~validProductIdType(type),
     base |-> ("productId.@type" :> type @@ "productId" :> id)]

\* callFindItemsAdvanced(str), index.js:136-138
callFindItemsAdvanced(str) ==
    [base |-> ("descriptionSearch" :> "true" @@ "keywords" :> str)]

(***************************************************************************)
(* findItemsByProduct(type, id, other = {}), index.js:149-154.  Without an *)
(* identifier (!id) it returns the function awaiting one, whatever the     *)
(* type and the options; otherwise it runs callFindByProduct and applies   *)
(* the result to other, {} when other was not passed.                      *)
(***************************************************************************)
findItemsByProduct(type, id, other) ==
    /\ pc = "idle"
    /\ fn' = "findItemsByProduct"
    /\ args' = [type |-> type, id |-> id, other |-> other]
    /\ IF Falsy(id)
       THEN /\ pc' = "awaitId"
            /\ ret' = Append(ret, "function awaiting identifier")
            /\ staged' = [type |-> type, id |-> Missing]
            /\ UNCHANGED <<operation, issued, unwrapped, settled>>
       ELSE /\ staged' = [type |-> type, id |-> id]
            /\ IF callFindByProduct(type, id).threw
               THEN Throw(ErrUnknownType)
               ELSE findCall("findItemsByProduct", callFindByProduct(type, id).base, other.opts)
    /\ UNCHANGED <<ebay, harnessVars>>

(***************************************************************************)
(* lookupId => callFindByProduct({ type, id: lookupId }), index.js:151:    *)
(* the function awaiting an identifier is applied.                         *)
(***************************************************************************)
lookupId(id) ==
    /\ pc = "awaitId"
    /\ staged' = [staged EXCEPT !.id = id]
    /\ IF callFindByProduct(staged.type, id).threw
       THEN Throw(ErrUnknownType)
       ELSE /\ pc' = "awaitOther"
            /\ ret' = Append(ret, "function awaiting options")
            /\ UNCHANGED <<operation, issued, unwrapped, settled>>
    /\ UNCHANGED <<ebay, fn, args, harnessVars>>

(***************************************************************************)
(* other => { ... }, index.js:80-104: the function awaiting the extra      *)
(* options is applied.                                                     *)
(***************************************************************************)
applyOther(other) ==
    /\ pc = "awaitOther"
    /\ findCall("findItemsByProduct", callFindByProduct(staged.type, staged.id).base, other.opts)
    /\ UNCHANGED <<ebay, fn, args, staged, harnessVars>>

(***************************************************************************)
(* findItemsByUpc, findItemsByReferenceId, findItemsByIsbn, findItemsByEan *)
(* (index.js:162-168): findItemsByProduct(<type>)(id)(other), the three    *)
(* stages in one invocation.                                               *)
(***************************************************************************)
findItemsByType(name, type, id, other) ==
    /\ pc = "idle"
    /\ fn' = name
    /\ args' = [type |-> type, id |-> id, other |-> other]
    /\ staged' = [type |-> type, id |-> id]
    /\ IF callFindByProduct(type, id).threw
       THEN Throw(ErrUnknownType)
       ELSE findCall("findItemsByProduct", callFindByProduct(type, id).base, other.opts)
    /\ UNCHANGED <<ebay, harnessVars>>

findItemsByUpc(upc, other) == findItemsByType("findItemsByUpc", "UPC", upc, other)

findItemsByReferenceId(refId, other) ==
    findItemsByType("findItemsByReferenceId", "ReferenceID", refId, other)

findItemsByIsbn(isbn, other) == findItemsByType("findItemsByIsbn", "ISBN", isbn, other)

findItemsByEan(ean, other) == findItemsByType("findItemsByEan", "EAN", ean, other)

\* findItemsByKeywords (index.js:170): callFindItemsAdvanced(keywords)(other)
findItemsByKeywords(keywords, other) ==
    /\ pc = "idle"
    /\ fn' = "findItemsByKeywords"
    /\ args' = [type |-> Missing, id |-> keywords, other |-> other]
    /\ staged' = staged
    /\ findCall("findItemsAdvanced", callFindItemsAdvanced(keywords).base, other.opts)
    /\ UNCHANGED <<ebay, harnessVars>>

(***************************************************************************)
(* The callback given to ebay.get (index.js:90-102): an error rejects the  *)
(* promise with it; otherwise the data is flattened and the field          *)
(* `${operation}Response` taken from it: a falsy one rejects with 'eBay    *)
(* Response Empty', any other resolves the promise.                        *)
(***************************************************************************)
unwrap(op, data) == Get(flatten(data), ResponseKey(op))

transportCallback(err, data) ==
    /\ pc = "pending"
    /\ IF err
       THEN /\ pc' = "rejected"
            /\ settled' = ErrTransport
            /\ unwrapped' = unwrapped
       ELSE IF ~Truthy(unwrap(operation, data))
       THEN /\ pc' = "rejected"
            /\ settled' = ErrResponseEmpty
            /\ unwrapped' = unwrapped
       ELSE /\ pc' = "unwrapped"
            /\ settled' = settled
            /\ unwrapped' = unwrap(operation, data)
    /\ UNCHANGED <<ebay, fn, args, staged, ret, operation, issued, harnessVars>>

(***************************************************************************)
(* .then(response => parser(response)), index.js:103: what the parser      *)
(* returns resolves the promise the caller holds, what it throws rejects   *)
(* it.                                                                     *)
(***************************************************************************)
\* what the parser throws is taken for its result
thenParserSwallows ==
    /\ pc = "unwrapped"
    /\ pc' = "resolved"
    /\ settled' = findByProductParser(unwrapped).value
    /\ UNCHANGED <<ebay, fn, args, staged, ret, operation, issued, unwrapped, harnessVars>>

thenParser ==
    /\ pc = "unwrapped"
    /\ pc' = IF findByProductParser(unwrapped).threw THEN "rejected" ELSE "resolved"
    /\ settled' = findByProductParser(unwrapped).value
    /\ UNCHANGED <<ebay, fn, args, staged, ret, operation, issued, unwrapped, harnessVars>>

(***************************************************************************)
(* One search call, from the module's load on.                             *)
(***************************************************************************)
NoCall ==
    /\ pc = "idle"
    /\ fn = "none"
    /\ args = [type |-> Missing, id |-> Missing, other |-> [given |-> FALSE, opts |-> NoOptions]]
    /\ staged = [type |-> Missing, id |-> Missing]
    /\ ret = <<>>
    /\ operation = "none"
    /\ issued = <<>>
    /\ unwrapped = undefined
    /\ settled = undefined

Init ==
    /\ ebay = Null
    /\ NoCall
    /\ fin = EmptyObj
    /\ fout = <<>>
    /\ fpc = 0

Next ==
    \/ init
    \/ \E type \in Types, id \in Ids, other \in Others : findItemsByProduct(type, id, other)
    \/ \E id \in Ids : lookupId(id)
    \/ \E other \in Others : applyOther(other)
    \/ \E id \in Ids, other \in Others : findItemsByUpc(id, other)
    \/ \E id \in Ids, other \in Others : findItemsByReferenceId(id, other)
    \/ \E id \in Ids, other \in Others : findItemsByIsbn(id, other)
    \/ \E id \in Ids, other \in Others : findItemsByEan(id, other)
    \/ \E keywords \in Keywords, other \in Others : findItemsByKeywords(keywords, other)
    \/ \E data \in Datas(operation) : transportCallback(FALSE, data)
    \/ transportCallback(TRUE, EmptyObj)
    \/ thenParser

Spec == Init /\ [][Next]_vars

(***************************************************************************)
(* The structures the flatten harness draws from: every value of at most   *)
(* MaxNodes nodes built from one string, arrays, and objects over the keys *)
(* a and b.  VF[n] holds the values of exactly n nodes and the tuples of   *)
(* values of n nodes in all.                                               *)
(***************************************************************************)
MaxNodes == 6

Leaf == Str(<<"5">>)

VF[n \in 0..MaxNodes] ==
    IF n = 0 THEN [vals |-> {}, forest |-> {<<>>}]
    ELSE
      LET sub == VF[n-1].forest
          vals == (IF n = 1 THEN {Leaf} ELSE {})
                  \cup {Arr(f) : f \in sub}
                  \cup {Obj([k \in {} |-> undefined]) : f \in {g \in sub : Len(g) = 0}}
                  \cup {Obj([k \in {"a"} |-> f[1]]) : f \in {g \in sub : Len(g) = 1}}
                  \cup {Obj([k \in {"a", "b"} |-> IF k = "a" THEN f[1] ELSE f[2]]) :
                            f \in {g \in sub : Len(g) = 2}}
          valsOf(k) == IF k = n THEN vals ELSE VF[k].vals
      IN [vals |-> vals,
          forest |-> UNION {{<<x>> \o f : x \in valsOf(k), f \in VF[n-k].forest} : k \in 1..n}]

\* flatten is given the deserialized response: an object.
Structures(n) == {x \in UNION {VF[k].vals : k \in 1..n} : x.t = "object"}

(***************************************************************************)
(* The flatten harness: a structure is drawn, flatten is applied to it,    *)
(* and flatten is applied once more to the result.                         *)
(***************************************************************************)
ApplyFlatten ==
    /\ fpc = 0
    /\ fout' = <<flatten(fin)>>
    /\ fpc' = 1
    /\ UNCHANGED <<ebay, callVars, fin>>

ApplyFlattenAgain ==
    /\ fpc = 1
    /\ fout' = Append(fout, flatten(fout[1]))
    /\ fpc' = 2
    /\ UNCHANGED <<ebay, callVars, fin>>

InitFlatten ==
    /\ ebay = Null
    /\ NoCall
    /\ fin \in Structures(MaxNodes)
    /\ fout = <<>>
    /\ fpc = 0

NextFlatten == ApplyFlatten \/ ApplyFlattenAgain

SpecFlatten == InitFlatten /\ [][NextFlatten]_vars

(***************************************************************************)
(* The properties checked.                                                 *)
(***************************************************************************)
Settled == pc \in {"resolved", "rejected"}
\* The call failed: it threw, or its deferred result rejected.
Failed == pc \in {"thrown", "rejected"}
ItemOf(body) == Get(Get(body, "searchResult"), "item")
CountOf(body) == Get(Get(body, "searchResult"), "@count")
\* The body carries searchResult.item as one object, ack "Success", count "1".
SingleItemSuccess(body) ==
    /\ ItemOf(body).t = "object"
    /\ Get(body, "ack") = SuccessAck
    /\ CountOf(body) = Str(<<"1">>)

(* C1: every result a search resolves with has a sequence as searchResult; *)
(* and a body carrying searchResult.item as one object, with ack "Success" *)
(* and count "1", resolves with searchResult a one-element sequence (that  *)
(* item) and searchResultCount the integer 1.                              *)
C1_SearchResultIsSequence ==
    /\ pc = "resolved" =>
          /\ settled.t = "object"
          /\ isArray(settled.v["searchResult"])
    /\ (Settled /\ SingleItemSuccess(unwrapped)) =>
          /\ pc = "resolved"
          /\ settled.v["searchResult"] = Arr(<<ItemOf(unwrapped)>>)
          /\ settled.v["searchResultCount"] = Num(1)

C1_Witness ==
    /\ pc = "resolved"
    /\ SingleItemSuccess(unwrapped)
    /\ Len(settled.v["searchResult"].v) = 1

\* b is the body a with, at most, searchResult.item made a sequence.
SameBody(a, b) ==
    /\ b.t = "object" /\ a.t = "object"
    /\ DOMAIN b.v = DOMAIN a.v
    /\ \A k \in DOMAIN a.v \ {"searchResult"} : b.v[k] = a.v[k]
    /\ "searchResult" \in DOMAIN a.v =>
          LET sa == a.v["searchResult"]
              sb == b.v["searchResult"]
          IN \/ sb = sa
             \/ /\ sa.t = "object" /\ sb.t = "object"
                /\ DOMAIN sb.v = DOMAIN sa.v
                /\ \A k \in DOMAIN sa.v \ {"item"} : sb.v[k] = sa.v[k]
                /\ "item" \in DOMAIN sa.v
                /\ sa.v["item"].t # "array"
                /\ sb.v["item"] = Arr(<<sa.v["item"]>>)

UnsupportedType == fn = "findItemsByProduct" /\ args.type \notin productIdTypes

(* C3 as stated: findItemsByProduct with a type outside {ReferenceID,      *)
(* ISBN, UPC, EAN} fails with InvalidArgument and issues no remote call,   *)
(* however it is called (type only included).                              *)
C3_AsStated ==
    UnsupportedType => (pc = "thrown" /\ settled = ErrUnknownType /\ issued = <<>>)

(* C3 amended: findItemsByProduct with an unsupported type never issues a  *)
(* remote call; called without an identifier it returns the function       *)
(* awaiting one and fails only when that function is given an identifier;  *)
(* called with an identifier it fails at once.  The failure is the         *)
(* InvalidArgument error, thrown before any deferred result exists.        *)
C3_UnsupportedTypeNeverCalls ==
    UnsupportedType =>
        /\ issued = <<>>
        /\ IF args.id \in {Missing, ""}
           THEN \/ pc = "awaitId" /\ ret = <<"function awaiting identifier">>
                \/ /\ pc = "thrown" /\ settled = ErrUnknownType
                   /\ ret = <<"function awaiting identifier", "threw">>
           ELSE pc = "thrown" /\ settled = ErrUnknownType /\ ret = <<"threw">>

C3_Witness ==
    /\ UnsupportedType
    /\ pc = "thrown"
    /\ ret = <<"function awaiting identifier", "threw">>
    /\ ebay = Client

(* C4: any search function invoked while the handle has not been set by    *)
(* init fails with the error of the missing handle.  The TypeError that    *)
(* ebay.get raises on the null handle is taken for that error, and an      *)
(* invocation that only returned the function of the next stage is not     *)
(* counted as a search yet.                                                *)
C4_UnsetHandleFailsNotInitialized ==
    (ebay = Null /\ fn # "none" /\ pc \notin {"awaitId", "awaitOther"}) =>
        (Failed /\ settled = ErrNullHandle)

\* The envelope field is absent or empty.
EmptyEnvelope(x) == ~Truthy(x) \/ x = EmptyObj

(* C5: when the transport succeeded and the field `<operation>Response` of *)
(* the normalized response is absent or empty ({} included), the deferred  *)
(* result rejects with the EmptyResponse error.                            *)
C5_EmptyEnvelopeRejects ==
    (Settled /\ issued # <<>> /\ settled # ErrTransport /\ EmptyEnvelope(unwrapped)) =>
        (pc = "rejected" /\ settled = ErrResponseEmpty)

(* C6: when the unwrapped body has no searchResult field and its ack is    *)
(* not "Failure", the deferred result resolves with searchResult the empty *)
(* sequence and searchResultCount 0.                                       *)
C6_AbsentSearchResultResolvesEmpty ==
    (/\ Settled
     /\ unwrapped.t = "object"
     /\ "searchResult" \notin DOMAIN unwrapped.v
     /\ Get(unwrapped, "ack") # FailureAck) =>
        /\ pc = "resolved"
        /\ settled.v["searchResult"] = Arr(<<>>)
        /\ settled.v["searchResultCount"] = Num(0)

(* C7 as stated: every error of a search call reaches the caller through   *)
(* the rejection of the deferred result the search function returned.      *)
C7_AsStated == Failed => (pc = "rejected" /\ ret[Len(ret)] = "promise")

(* C7 amended: the error of the missing handle, EmptyResponse,             *)
(* ServiceFailure, TransportError and the parser's TypeError reach the     *)
(* caller through the rejection of the deferred result; InvalidArgument is *)
(* thrown by the invocation that supplies the identifier, before any       *)
(* deferred result exists and before any remote call.  No error is retried *)
(* (at most one remote call is issued) or swallowed (a result is resolved  *)
(* only from a body that has a searchResult and whose ack is not           *)
(* "Failure").                                                             *)
C7_ErrorsRejectExceptInvalidArgument ==
    /\ Len(issued) <= 1
    /\ pc = "thrown" =>
          /\ settled = ErrUnknownType
          /\ ret[Len(ret)] = "threw"
          /\ "promise" \notin {ret[i] : i \in DOMAIN ret}
          /\ issued = <<>>
    /\ pc = "rejected" =>
          /\ ret[Len(ret)] = "promise"
          /\ \/ settled \in {ErrNullHandle, ErrResponseEmpty, ErrTransport, ErrNoSearchResult}
             \/ settled.t = "object" /\ Get(settled, "ack") = FailureAck
    /\ pc = "resolved" =>
          /\ settled.t = "object"
          /\ DOMAIN settled.v = ResultKeys
          /\ Get(unwrapped, "searchResult").t # "undefined"
          /\ Get(unwrapped, "ack") # FailureAck
    /\ (settled.t = "error" \/ Get(settled, "ack") = FailureAck) => Failed

C7_Witness ==
    /\ pc = "rejected"
    /\ settled.t = "object"
    /\ Len(issued) = 1

(* C8 as stated: findItemsByProduct given a type and an identifier yields  *)
(* a function awaiting the extra options, and no remote call is issued     *)
(* before the options stage is supplied.                                   *)
C8_AsStated ==
    (fn = "findItemsByProduct" /\ args.id \notin {Missing, ""} /\ ~args.other.given /\ pc # "thrown") =>
        (ret = <<"function awaiting options">> /\ issued = <<>>)

(* C8 amended: findItemsByProduct given only a type (no identifier, or an  *)
(* empty one) returns a function awaiting the identifier; that function    *)
(* returns a function awaiting the extra options; no remote call is issued *)
(* until that last function is applied.  Given a type and an identifier in *)
(* one invocation it performs the search at once, with the options passed  *)
(* or none, and returns the deferred result.                               *)
C8_StagedApplication ==
    fn = "findItemsByProduct" =>
        IF args.id \in {Missing, ""}
        THEN /\ ret # <<>> /\ ret[1] = "function awaiting identifier"
             /\ pc = "awaitId" => (ret = <<"function awaiting identifier">> /\ issued = <<>>)
             /\ pc = "awaitOther" =>
                   /\ ret = <<"function awaiting identifier", "function awaiting options">>
                   /\ issued = <<>>
             /\ issued # <<>> =>
                   ret = <<"function awaiting identifier", "function awaiting options", "promise">>
        ELSE /\ pc \notin {"awaitId", "awaitOther"}
             /\ ret \in {<<"promise">>, <<"threw">>}
             /\ issued # <<>> => issued[1]["productId"] = args.id

C8_Witness ==
    /\ fn = "findItemsByProduct"
    /\ args.id \in {Missing, ""}
    /\ ret = <<"function awaiting identifier", "function awaiting options", "promise">>
    /\ issued # <<>>

\* No field reachable through objects alone holds a sequence of length 1
\* (what lies inside a sequence of another length is left as it was).
RECURSIVE NoSingletonLeft(_)
NoSingletonLeft(x) ==
    x.t = "object" =>
        \A k \in DOMAIN x.v :
            /\ ~(isArray(x.v[k]) /\ Len(x.v[k].v) = 1)
            /\ NoSingletonLeft(x.v[k])

(* C9: after flatten no field at any depth holds a sequence of length 1,   *)
(* and the fields holding a sequence of length 0 or of length 2 and more   *)
(* are unchanged.                                                          *)
C9_SingletonsCollapsed ==
    fpc >= 1 =>
        /\ NoSingletonLeft(fout[1])
        /\ \A k \in DOMAIN fin.v :
              (isArray(fin.v[k]) /\ Len(fin.v[k].v) # 1) => fout[1].v[k] = fin.v[k]

(* C10: flatten is idempotent: flatten(flatten(x)) equals flatten(x).      *)
C10_FlattenIdempotent == fpc = 2 => fout[2] = fout[1]

====
